---- MODULE Spec2Model ----
(***************************************************************************)
(* State-machine model of the risk-gated execution core of the strategy    *)
(* engine: RiskManager (risk/manager.py), ArbitrageExecutor                *)
(* (arbitrage/executor.py) and GridStrategyManager (grid/manager.py).      *)
(*                                                                         *)
(* Scheduling is asyncio's: a task runs atomically from one await to the   *)
(* next, so every action below is the code between two suspension points.  *)
(* Severities and concentrations are scaled by 100 to stay in the integers *)
(* (0.7 is 70, 0.9 is 90).                                                 *)
(***************************************************************************)
EXTENDS Integers, Sequences, FiniteSets, TLC

(***************************************************************************)
(* Bounds of the model.                                                    *)
(***************************************************************************)
\* monitoring tasks modelled (the first NumMonitors of MONITORING_TIMEFRAMES)
NumMonitors == 1
\* longest list kept in risk_metrics_history
MaxHistory == 2
\* the bound the configuration gives for the history (monitoring.metrics_history,
\* 1000 by default), configured small
MetricsHistoryLimit == 1
\* largest value of a position
MaxValue == 3
\* largest value of one trade
MaxTradeValue == 1
\* direct emergency_shutdown calls that are counted
MaxShutdownCalls == 2
\* execute_opportunity calls that are counted
MaxExecCalls == 2
\* the largest number of grid levels the optimizer is let to choose
MaxGridLevels == 4
\* rebalance_grid calls that are counted
MaxRebalances == 2

(***************************************************************************)
(* Program constants.                                                      *)
(***************************************************************************)
\* RISK_ALERT_LEVELS["WARNING"] = 0.7, scaled by 100
WARNING == 70
\* RISK_ALERT_LEVELS["CRITICAL"] = 0.9, scaled by 100
CRITICAL == 90

\* executor.py: MAX_EXECUTION_ATTEMPTS
MAX_EXECUTION_ATTEMPTS == 3
\* base.py: MAX_POSITION_SIZE_BPS and MIN_POSITION_SIZE_BPS, the limits a
\* BaseStrategy built without top-level limit keys falls back to
MAX_POSITION_SIZE_BPS == 5000
MIN_POSITION_SIZE_BPS == 100

\* grid/calculator.py: MIN_GRID_LEVELS
MIN_GRID_LEVELS == 3
MIN_PRICE_DIFFERENCE_BPS == 20
MIN_LIQUIDITY_REQUIREMENT == 1000
MAX_SLIPPAGE_BPS == 50

MONITORING_TIMEFRAMES == <<"1m", "5m", "15m", "1h">>

\* the message of RiskManager.validate_trade while the gate is closed, as words
EmergencyStopError == <<"Trading", "suspended", "-", "Emergency", "stop", "active">>
\* str(e) of any other exception, and no error
ExceptionText == <<"exception">>
NoError == <<>>

\* text `sub` occurs in text `s`
Contains(s, sub) ==
    \E i \in 0..(Len(s) - Len(sub)) : SubSeq(s, i + 1, i + Len(sub)) = sub

(***************************************************************************)
(* Tasks.  The caller is whoever awaits the public coroutines; a monitor   *)
(* runs _monitor_risk_metrics; the persistence task runs                   *)
(* _persist_risk_state.                                                    *)
(***************************************************************************)
Caller == "caller"
PersistTask == "persist_task"
Monitors == {MONITORING_TIMEFRAMES[i] : i \in 1..NumMonitors}
Procs == {Caller, PersistTask} \cup Monitors
\* the task start_monitoring creates from _monitor_system_health
HealthTask == "health_task"
\* every task start_monitoring creates; the cycles of the first NumMonitors
\* monitors and of the persistence task are followed
TaskNames ==
    {MONITORING_TIMEFRAMES[i] : i \in 1..Len(MONITORING_TIMEFRAMES)}
        \cup {PersistTask, HealthTask}

Pairs == {"SOL/USDC"}
Trades == [pair : Pairs, value : 1..MaxTradeValue]

\* severities _assess_breach_severity can report, scaled by 100
Severities == {69, 70, 89, 90}

(***************************************************************************)
(* Collaborators that manager.py calls and does not define                 *)
(* (_cancel_all_orders, _secure_portfolio_state, _reduce_risk_exposure,    *)
(* _assess_breach_severity, _detect_risk_breach, _assess_timing_risk,      *)
(* _calculate_market_impact): each call either returns or raises.          *)
(***************************************************************************)
Outcome == {"ok", "raise"}

VARIABLES
    emergency_stop,        \* RiskManager.emergency_stop
    positions,             \* RiskManager.portfolio_state['positions']: pair -> value
    risk_metrics_history,  \* RiskManager.risk_metrics_history
    openOrders,            \* orders outstanding at the venues
    persisted,             \* content of RISK_PERSISTENCE_PATH
    pc,                    \* where each task is suspended
    frame,                 \* the handle_risk_breach call a task is inside of
    ret,                   \* what the last public call of the RiskManager returned
    sd_returns,            \* direct emergency_shutdown calls that have returned
    launched,              \* tasks start_monitoring has created, by name
    execution_stats,       \* ArbitrageExecutor.execution_stats
    ex_equity,             \* ArbitrageExecutor.base_strategy.portfolio_state['equity']
    ex_pc,                 \* where the execute_opportunity call is suspended
    ex_bundle,             \* transaction_bundle of the call: the value of each leg
    ex_attempt,            \* attempts submitted by the call so far
    ex_last,               \* how the call's latest attempt ended
    ex_errors,             \* execution_result['errors'] of the call
    ex_result,             \* what the last execute_opportunity call returned
    ex_calls,              \* execute_opportunity calls that have returned
    active_grids,          \* GridStrategyManager.active_grids
    rebalance_events,      \* length of performance_metrics['rebalance_events']
    rebalance_failures,    \* error_states['rebalance_failures']
    g_pc,                  \* where the rebalance_grid call is suspended
    g_frame,               \* locals of the suspended rebalance_grid call
    g_ret,                 \* how the last setup_grid or rebalance_grid call ended
    grid_order,            \* the keys of active_grids in the order they were inserted
    grid_fresh,            \* pairs whose last_update is within HEALTH_CHECK_INTERVAL of now
    market_price,          \* the price of each pair at the venue
    gm_pc,                 \* where the monitor_and_adjust task is suspended
    gm_iter,               \* the dict iterator of the for loop: size seen, position
    gm_pair,               \* the pair the for loop is working on
    gm_grid,               \* the levels of the loop's grid object once setup_grid
                           \* has replaced it in active_grids, else <<>>
    gm_cycle,              \* what the current cycle has done with each pair
    bs_portfolio,          \* BaseStrategy.portfolio_state of a strategy called directly
    bs_ret,                \* what the last validate_trade call on that strategy returned
    lq_ret,                \* what the last ArbitrageDetector.validate_liquidity call returned
    dt_threshold,          \* ArbitrageDetector.min_profit_threshold
    dt_market,             \* ArbitrageDetector.market_data: the rows of one pair
    dt_ret,                \* what the last validate_opportunity call returned
    sl_ret,                \* what the last ArbitrageExecutor._calculate_slippage call returned
    cr_ret                 \* how the last RiskCalculator.calculate_portfolio_risk call ended

riskVars == <<emergency_stop, positions, risk_metrics_history, openOrders,
              persisted, pc, frame, ret, sd_returns, launched>>

execVars == <<execution_stats, ex_equity, ex_pc, ex_bundle, ex_attempt, ex_last,
              ex_errors, ex_result, ex_calls>>

\* the monitor_and_adjust task
monVars == <<gm_pc, gm_iter, gm_pair, gm_grid, gm_cycle>>

gridVars == <<active_grids, rebalance_events, rebalance_failures, g_pc, g_frame,
              g_ret, grid_order, grid_fresh, market_price, monVars>>

\* a BaseStrategy and an ArbitrageDetector on which single calls are made
unitVars == <<bs_portfolio, bs_ret, lq_ret, dt_threshold, dt_market, dt_ret,
              sl_ret, cr_ret>>

\* what the RiskManager's own operations leave alone
tradingVars == <<execVars, gridVars, unitVars>>

vars == <<riskVars, execVars, gridVars, unitVars>>

HistoryKeys == {"var", "drawdown", "concentration", "alerts"}

\* hb: the task is inside handle_risk_breach; step_failed: a persistence write of
\* the emergency_shutdown the task is inside of has raised
NoFrame == [hb |-> FALSE, severity |-> 0, step_failed |-> FALSE]
NoRet == [op |-> "none", status |-> "none", severity |-> 0, actions |-> <<>>,
          value |-> FALSE, error |-> NoError, delegated |-> FALSE]
\* the file: absent until a write opens it; complete when the json.dump that
\* followed the open ran to its end
NoSnapshot == [written |-> FALSE, complete |-> FALSE, emergency_stop |-> FALSE]

\* where a task waits between two public calls / two cycles
Home(p) == IF p = Caller THEN "idle" ELSE "sleep"

(***************************************************************************)
(* RiskManager.__init__; the owner may have assigned portfolio_state.      *)
(***************************************************************************)
InitRisk ==
    /\ emergency_stop = FALSE
    /\ positions \in {[p \in {} |-> 0], [p \in Pairs |-> 1]}
    /\ risk_metrics_history = [k \in HistoryKeys |-> <<>>]
    /\ openOrders = 1
    /\ persisted = NoSnapshot
    /\ pc = [p \in Procs |-> IF p = Caller THEN "idle" ELSE "unstarted"]
    /\ frame = [p \in Procs |-> NoFrame]
    /\ ret = NoRet
    /\ sd_returns = 0
    /\ launched = [t \in TaskNames |-> 0]

NoResult == [returned |-> FALSE, success |-> FALSE, errors |-> <<>>, attempts |-> 0]
\* ArbitrageExecutor.__init__
InitExec ==
    /\ execution_stats = [total_executions |-> 0, successful_executions |-> 0,
                          failed_executions |-> 0]
    /\ ex_equity = 0
    /\ ex_pc = "idle"
    /\ ex_bundle = <<>>
    /\ ex_attempt = 0
    /\ ex_last = "none"
    /\ ex_errors = <<>>
    /\ ex_result = NoResult
    /\ ex_calls = 0

\* by: "owner" for a direct call of rebalance_grid, "monitor" for the call
\* monitor_and_adjust makes
NoGridFrame == [pair |-> "", price |-> 0, grid_levels |-> 0, grid_spacing |-> 0,
                by |-> "none"]
GridPairs == {"SOL/USDC", "ORCA/USDC"}
\* what _get_current_price can report
MonitorPrices == {100, 105}
NoIter == [used |-> 0, pos |-> 0]
NoGridRet == [op |-> "none", status |-> "none"]

\* GridStrategyManager.__init__
InitGrid ==
    /\ active_grids = [p \in {} |-> 0]
    /\ rebalance_events = 0
    /\ rebalance_failures = 0
    /\ g_pc = "idle"
    /\ g_frame = NoGridFrame
    /\ g_ret = NoGridRet
    /\ grid_order = <<>>
    /\ grid_fresh = {}
    /\ market_price = [pair \in GridPairs |-> 100]
    /\ gm_pc = "unstarted"
    /\ gm_iter = NoIter
    /\ gm_pair = ""
    /\ gm_grid = <<>>
    /\ gm_cycle = [pair \in {} |-> "unvisited"]

\* an order book side: a list of [price, volume] levels, a key that is absent
\* from the order book, or a value numpy cannot turn into a table of numbers
NoSide == [form |-> "missing", levels |-> <<>>]
NoBook == [bids |-> NoSide, asks |-> NoSide]
NoLiquidityRet == [called |-> FALSE, market_data |-> NoBook, required_volume |-> 0,
                   value |-> FALSE]
NoMarket == [buy_price |-> 0, sell_price |-> 0, buy_book |-> NoBook,
             sell_book |-> NoBook]
NoOpportunityRet == [called |-> FALSE, market |-> NoMarket, threshold |-> 0,
                     valid |-> FALSE, price_difference_bps |-> 0]

\* detector.py:47: the configured threshold is raised to the global minimum
MinProfitThreshold(min_profit_threshold) ==
    IF min_profit_threshold > MIN_PRICE_DIFFERENCE_BPS
    THEN min_profit_threshold
    ELSE MIN_PRICE_DIFFERENCE_BPS

\* ArbitrageDetector.__init__ with the global minimum as its threshold: an
\* empty market_data frame
InitDetector ==
    /\ lq_ret = NoLiquidityRet
    /\ dt_threshold = MinProfitThreshold(MIN_PRICE_DIFFERENCE_BPS)
    /\ dt_market = NoMarket
    /\ dt_ret = NoOpportunityRet

NoTrade == [size |-> 0, price |-> 0, numpy |-> FALSE]
NoTradeRet == [called |-> FALSE, trade |-> NoTrade,
               portfolio |-> [equity |-> 0, position |-> 0],
               valid |-> FALSE, size_error |-> FALSE, error |-> FALSE]

\* BaseStrategy.__init__ (base.py:38-43): equity 0.0 and no positions
InitStrategy ==
    /\ bs_portfolio = [equity |-> 0, position |-> 0]
    /\ bs_ret = NoTradeRet

\* an 'asks' side as _calculate_slippage meets it: absent, a python list, or
\* a numpy table of [price, volume] rows
NoSlippageRet == [called |-> FALSE, row |-> FALSE, size |-> 0,
                  asks |-> [form |-> "missing", levels |-> <<>>],
                  infinite |-> FALSE, num |-> 0, den |-> 1, within_limits |-> FALSE]
NoRiskRet == [called |-> FALSE, positions |-> [x \in {} |-> 0], history |-> 0,
              raised |-> FALSE, error_key |-> FALSE]

\* no call made yet on the executor's slippage estimate and on the calculator
InitCalls ==
    /\ sl_ret = NoSlippageRet
    /\ cr_ret = NoRiskRet

\* the components as constructed
Init == InitRisk /\ InitExec /\ InitGrid /\ InitStrategy /\ InitDetector /\ InitCalls

(***************************************************************************)
(* RiskManager._update_risk_history: for every list of the history whose   *)
(* key is also a key of the metrics handed in, append the metric's value.  *)
(***************************************************************************)
UpdateRiskHistory(hist, metrics) ==
    [k \in HistoryKeys |->
        IF k \in DOMAIN metrics THEN Append(hist[k], metrics[k]) ELSE hist[k]]

\* RiskCalculator.calculate_portfolio_risk: concentration = max value / total value
\* (scaled by 100); it raises on an empty or worthless portfolio.
RECURSIVE SumValues(_, _)
SumValues(pos, S) ==
    IF S = {} THEN 0
    ELSE LET x == CHOOSE y \in S : TRUE IN pos[x] + SumValues(pos, S \ {x})

PortfolioValue(pos) == SumValues(pos, DOMAIN pos)

MaxPositionValue(pos) ==
    CHOOSE v \in {pos[x] : x \in DOMAIN pos} : \A x \in DOMAIN pos : pos[x] <= v

CalcPortfolioRiskRaises(pos, md) ==
    \/ md = "raise"
    \/ DOMAIN pos = {}
    \/ PortfolioValue(pos) = 0

Concentration(pos) == (MaxPositionValue(pos) * 100) \div PortfolioValue(pos)

\* the keys of the dict assess_portfolio_risk hands to _update_risk_history
ComprehensiveRisk(pos, stop) ==
    [var_metrics |-> 0, correlation_matrix |-> 0,
     concentration |-> Concentration(pos), stress_test_results |-> 0,
     risk_adjusted_metrics |-> 0, current_drawdown |-> 0, liquidity_risk |-> 0,
     correlation_risk |-> 0, emergency_stop |-> stop, timestamp |-> 0]

\* the dict handle_risk_breach hands to _update_risk_history
BreachRecord(severity, actions) ==
    [breach_event |-> 0, severity |-> severity, actions |-> actions, timestamp |-> 0]

(***************************************************************************)
(* RiskManager.assess_portfolio_risk: no await inside, so one step.  The   *)
(* history after the call; unchanged when the calculation raised.          *)
(***************************************************************************)
AssessHistory(hist, pos, stop, md) ==
    IF CalcPortfolioRiskRaises(pos, md) THEN hist
    ELSE UpdateRiskHistory(hist, ComprehensiveRisk(pos, stop))

HistoryRoom(hist, pos, md) ==
    CalcPortfolioRiskRaises(pos, md) \/ Len(hist["concentration"]) < MaxHistory

AssessPortfolioRisk ==
    \E md \in Outcome :
        /\ HistoryRoom(risk_metrics_history, positions, md)
        /\ risk_metrics_history' =
               AssessHistory(risk_metrics_history, positions, emergency_stop, md)
        /\ UNCHANGED <<emergency_stop, positions, openOrders, persisted, pc, frame,
                       ret, sd_returns>>
        /\ UNCHANGED tradingVars
        /\ UNCHANGED launched

(***************************************************************************)
(* RiskManager.validate_trade.                                             *)
(***************************************************************************)
\* a validate_trade that never looks at the flag
ValidateTradeGate_Open(stop) == FALSE

\* line 178: the gate
ValidateTradeGate(stop) == stop

\* RiskCalculator.validate_trade simulates the trade on portfolio_state.copy(),
\* a shallow copy: the positions it adds the trade value to are the caller's.
SimulatedPositions(pos, t) ==
    IF t.pair \in DOMAIN pos
    THEN [pos EXCEPT ![t.pair] = @ + t.value]
    ELSE [x \in DOMAIN pos \cup {t.pair} |-> IF x = t.pair THEN t.value ELSE pos[x]]

\* How the delegated validation ends: the pre-trade risk calculation raises;
\* the gates raise after the simulation; _assess_timing_risk or
\* _calculate_market_impact raises; or the risk score approves or rejects.
ValidationOutcomes == {"calc_raise", "gate_raise", "helper_raise", "approve", "reject"}

\* What validate_trade returns and leaves in portfolio_state.
RMValidateTrade(stop, pos, t, out) ==
    IF ValidateTradeGate(stop)
    THEN [valid |-> FALSE, error |-> EmergencyStopError, delegated |-> FALSE,
          positions |-> pos]
    ELSE IF CalcPortfolioRiskRaises(pos, IF out = "calc_raise" THEN "raise" ELSE "ok")
    THEN [valid |-> FALSE, error |-> ExceptionText, delegated |-> TRUE,
          positions |-> pos]
    ELSE IF out \in {"gate_raise", "helper_raise"}
    THEN [valid |-> FALSE, error |-> ExceptionText, delegated |-> TRUE,
          positions |-> SimulatedPositions(pos, t)]
    ELSE [valid |-> (out = "approve"), error |-> NoError, delegated |-> TRUE,
          positions |-> SimulatedPositions(pos, t)]

ValueRoom(pos) == \A x \in DOMAIN pos : pos[x] <= MaxValue

ValidateTrade ==
    \E t \in Trades, out \in ValidationOutcomes :
        LET r == RMValidateTrade(emergency_stop, positions, t, out) IN
        /\ ValueRoom(r.positions)
        /\ ret' = [op |-> "validate_trade", status |-> "returned", severity |-> 0,
                   actions |-> <<>>, value |-> r.valid, error |-> r.error,
                   delegated |-> r.delegated]
        /\ positions' = r.positions
        /\ UNCHANGED <<emergency_stop, risk_metrics_history, openOrders, persisted,
                       pc, frame, sd_returns>>
        /\ UNCHANGED tradingVars
        /\ UNCHANGED launched

(***************************************************************************)
(* RiskManager.emergency_shutdown.                                         *)
(***************************************************************************)
\* an emergency_shutdown that flips the flag instead of setting it
ShutdownFlag_Toggle(stop) == ~stop

\* an emergency_shutdown that re-arms trading when the flag was already set
ShutdownFlag_Rearm(stop) == IF stop THEN FALSE ELSE TRUE

\* an emergency_shutdown whose first statement leaves the flag for later
ShutdownFlag_Late(stop) == stop

\* line 277: the flag after the first statement of emergency_shutdown
ShutdownFlag(stop) == TRUE

\* what handle_risk_breach returns (lines 255-259)
Handled(severity, actions) ==
    [op |-> "handle_risk_breach", status |-> "handled", severity |-> severity,
     actions |-> actions, value |-> FALSE, error |-> NoError, delegated |-> FALSE]

\* what handle_risk_breach returns when a step raised (lines 261-263)
BreachError(severity) ==
    [op |-> "handle_risk_breach", status |-> "error", severity |-> severity,
     actions |-> <<>>, value |-> FALSE, error |-> ExceptionText, delegated |-> FALSE]

\* emergency_shutdown returns `value` to task p.  Inside handle_risk_breach
\* (lines 236-259) the value is dropped, 'emergency_shutdown' is appended to the
\* actions, the breach is handed to _update_risk_history and 'handled' returned.
ShutdownReturn(p, value) ==
    /\ pc' = [pc EXCEPT ![p] = Home(p)]
    /\ frame' = [frame EXCEPT ![p] = NoFrame]
    /\ IF frame[p].hb
       THEN /\ risk_metrics_history' =
                   UpdateRiskHistory(risk_metrics_history,
                       BreachRecord(frame[p].severity, <<"emergency_shutdown">>))
            /\ ret' = Handled(frame[p].severity, <<"emergency_shutdown">>)
            /\ UNCHANGED sd_returns
       ELSE /\ ret' = [op |-> "emergency_shutdown", status |-> "returned",
                       severity |-> 0, actions |-> <<>>, value |-> value,
                       error |-> NoError, delegated |-> FALSE]
            /\ sd_returns' = sd_returns + 1
            /\ UNCHANGED risk_metrics_history

\* lines 275-283: set the flag, log, and await _cancel_all_orders
EmergencyShutdownCall ==
    /\ pc[Caller] = "idle"
    /\ sd_returns < MaxShutdownCalls
    /\ emergency_stop' = ShutdownFlag(emergency_stop)
    /\ pc' = [pc EXCEPT ![Caller] = "sd_cancel"]
    /\ UNCHANGED <<positions, risk_metrics_history, openOrders, persisted, frame,
                   ret, sd_returns>>
    /\ UNCHANGED tradingVars
    /\ UNCHANGED launched

\* lines 299-301: the except branch logs and returns False; the flag keeps the
\* value line 277 gave it
ShutdownExcept(stop) == [value |-> FALSE, emergency_stop |-> stop]

\* a step of emergency_shutdown raised
ShutdownFails(p) ==
    /\ ShutdownReturn(p, ShutdownExcept(emergency_stop).value)
    /\ emergency_stop' = ShutdownExcept(emergency_stop).emergency_stop

\* line 283: _cancel_all_orders returns, or raises into lines 299-301
ShutdownCancel(p) ==
    /\ pc[p] = "sd_cancel"
    /\ \E o \in Outcome :
          IF o = "ok"
          THEN /\ openOrders' = 0
               /\ pc' = [pc EXCEPT ![p] = "sd_secure"]
               /\ UNCHANGED <<emergency_stop, risk_metrics_history, frame, ret,
                              sd_returns>>
          ELSE /\ ShutdownFails(p)
               /\ UNCHANGED openOrders
    /\ UNCHANGED <<positions, persisted>>
    /\ UNCHANGED tradingVars
    /\ UNCHANGED launched

\* lines 286-289: _secure_portfolio_state returns and _persist_risk_state is
\* awaited, or it raises into lines 299-301
ShutdownSecure(p) ==
    /\ pc[p] = "sd_secure"
    /\ \E o \in Outcome :
          IF o = "ok"
          THEN /\ pc' = [pc EXCEPT ![p] = "persist"]
               /\ UNCHANGED <<emergency_stop, risk_metrics_history, frame, ret,
                              sd_returns>>
          ELSE ShutdownFails(p)
    /\ UNCHANGED <<positions, openOrders, persisted>>
    /\ UNCHANGED tradingVars
    /\ UNCHANGED launched

(***************************************************************************)
(* RiskManager._persist_risk_state: `while True`, one write per cycle, a   *)
(* failed write logged.  The loop has no exit, for the persistence task    *)
(* and for an emergency_shutdown that awaits it alike.                     *)
(***************************************************************************)
Snapshot(stop, hist) == [written |-> TRUE, complete |-> TRUE, emergency_stop |-> stop]

\* How a write ends (lines 361-367): open(path, 'w') raises and the file is as
\* it was; or open has truncated the file and json.dump, which writes the
\* document piece by piece, raises on the way (a value it cannot encode, a
\* full disk); or the document is written whole.
WriteOutcomes == {"ok", "raise", "partial"}

\* what open(path, 'w') followed by a json.dump that raised leaves behind
PartialSnapshot == [written |-> TRUE, complete |-> FALSE, emergency_stop |-> FALSE]

\* lines 361-367: the file after a write
WriteFile(file, stop, hist, o) ==
    IF o = "ok" THEN Snapshot(stop, hist)
    ELSE IF o = "partial" THEN PartialSnapshot
    ELSE file

\* lines 358-369: the try is inside `while True`, so after a cycle that wrote
\* and after one whose write raised the loop is at its head again
PersistLoopAfter(o) == "persist"

PersistCycle(p) ==
    /\ pc[p] = "persist"
    /\ \E o \in WriteOutcomes :
          /\ persisted' = WriteFile(persisted, emergency_stop,
                                    risk_metrics_history, o)
          /\ pc' = [pc EXCEPT ![p] = PersistLoopAfter(o)]
          /\ frame' = IF o # "ok" /\ p # PersistTask
                      THEN [frame EXCEPT ![p].step_failed = TRUE]
                      ELSE frame
    /\ UNCHANGED <<emergency_stop, positions, risk_metrics_history, openOrders,
                   ret, sd_returns>>
    /\ UNCHANGED tradingVars
    /\ UNCHANGED launched

(***************************************************************************)
(* RiskManager.handle_risk_breach.                                         *)
(***************************************************************************)
\* a response whose WARNING threshold is exclusive
GraduatedResponse_StrictWarning(severity) ==
    IF severity >= CRITICAL THEN "emergency_shutdown"
    ELSE IF severity > WARNING THEN "reduce_exposure"
    ELSE "log"

\* lines 230-242: the branch taken for a severity
GraduatedResponse(severity) ==
    IF severity >= CRITICAL THEN "emergency_shutdown"
    ELSE IF severity >= WARNING THEN "reduce_exposure"
    ELSE "log"

\* lines 222-259 up to the first await, for task p, from history `hist`;
\* sev is the severity _assess_breach_severity reports when it returns (a = "ok")
HandleBreachFrom(p, hist, a, sev) ==
    IF a = "raise"
    THEN /\ ret' = BreachError(0)
         /\ pc' = [pc EXCEPT ![p] = Home(p)]
         /\ risk_metrics_history' = hist
         /\ UNCHANGED <<emergency_stop, frame>>
    ELSE IF GraduatedResponse(sev) = "emergency_shutdown"
    THEN /\ emergency_stop' = ShutdownFlag(emergency_stop)
         /\ pc' = [pc EXCEPT ![p] = "sd_cancel"]
         /\ frame' = [frame EXCEPT ![p] = [hb |-> TRUE, severity |-> sev, step_failed |-> FALSE]]
         /\ risk_metrics_history' = hist
         /\ UNCHANGED ret
    ELSE IF GraduatedResponse(sev) = "reduce_exposure"
    THEN /\ pc' = [pc EXCEPT ![p] = "hb_reduce"]
         /\ frame' = [frame EXCEPT ![p] = [hb |-> TRUE, severity |-> sev, step_failed |-> FALSE]]
         /\ risk_metrics_history' = hist
         /\ UNCHANGED <<emergency_stop, ret>>
    ELSE /\ risk_metrics_history' = UpdateRiskHistory(hist, BreachRecord(sev, <<>>))
         /\ ret' = Handled(sev, <<>>)
         /\ pc' = [pc EXCEPT ![p] = Home(p)]
         /\ UNCHANGED <<emergency_stop, frame>>

\* a direct call of handle_risk_breach
HandleRiskBreach(a, sev) ==
    /\ pc[Caller] = "idle"
    /\ HandleBreachFrom(Caller, risk_metrics_history, a, sev)
    /\ UNCHANGED <<positions, openOrders, persisted, sd_returns>>
    /\ UNCHANGED tradingVars
    /\ UNCHANGED launched

\* _reduce_risk_exposure shrinks or closes positions
ReducedPositions(pos) ==
    {q \in UNION {[D -> 1..MaxValue] : D \in SUBSET DOMAIN pos} :
        \A x \in DOMAIN q : q[x] <= pos[x]}

\* lines 242-259: _reduce_risk_exposure returns, or raises into lines 261-263
BreachReduce(p) ==
    /\ pc[p] = "hb_reduce"
    /\ pc' = [pc EXCEPT ![p] = Home(p)]
    /\ frame' = [frame EXCEPT ![p] = NoFrame]
    /\ \E o \in Outcome :
          IF o = "ok"
          THEN /\ positions' \in ReducedPositions(positions)
               /\ risk_metrics_history' =
                      UpdateRiskHistory(risk_metrics_history,
                          BreachRecord(frame[p].severity,
                                       <<"reduce_exposure", "increase_monitoring">>))
               /\ ret' = Handled(frame[p].severity,
                                 <<"reduce_exposure", "increase_monitoring">>)
          ELSE /\ ret' = BreachError(frame[p].severity)
               /\ UNCHANGED <<positions, risk_metrics_history>>
    /\ UNCHANGED <<emergency_stop, openOrders, persisted, sd_returns>>
    /\ UNCHANGED tradingVars
    /\ UNCHANGED launched

(***************************************************************************)
(* RiskManager._monitor_risk_metrics: one cycle after the sleep, up to the *)
(* first await of handle_risk_breach.  An exception of _detect_risk_breach *)
(* is caught by the cycle.                                                 *)
(***************************************************************************)
DetectOutcomes == {"breach", "none", "raise"}

\* a cycle that detects a breach and calls handle_risk_breach (lines 309-316)
MonitorBreach(p, md, a, sev) ==
    /\ pc[p] = "sleep"
    /\ HistoryRoom(risk_metrics_history, positions, md)
    /\ HandleBreachFrom(p,
           AssessHistory(risk_metrics_history, positions, emergency_stop, md), a, sev)
    /\ UNCHANGED <<positions, openOrders, persisted, sd_returns>>
    /\ UNCHANGED tradingVars
    /\ UNCHANGED launched

\* lines 307-318: the try is inside `while True`, so a cycle that ended and a
\* cycle whose exception was caught both leave the loop at its sleep
MonitorLoopAfter(det) == "sleep"

\* a cycle that detects none, or whose detection raises (lines 309-312, 317-318)
MonitorQuiet(p, md, det) ==
    /\ pc[p] = "sleep"
    /\ HistoryRoom(risk_metrics_history, positions, md)
    /\ risk_metrics_history' =
           AssessHistory(risk_metrics_history, positions, emergency_stop, md)
    /\ pc' = [pc EXCEPT ![p] = MonitorLoopAfter(det)]
    /\ UNCHANGED <<emergency_stop, positions, openOrders, persisted, frame, ret,
                   sd_returns>>
    /\ UNCHANGED tradingVars
    /\ UNCHANGED launched

MonitorCycle(p) ==
    \E md \in Outcome, det \in DetectOutcomes :
        IF det = "breach"
        THEN \E a \in Outcome, sev \in Severities : MonitorBreach(p, md, a, sev)
        ELSE MonitorQuiet(p, md, det)

(***************************************************************************)
(* RiskManager.start_monitoring: one task per timeframe and the            *)
(* persistence task.                                                       *)
(***************************************************************************)
\* a start_monitoring that forgets the health-check task
LaunchedTasks_NoHealth(had) ==
    [t \in TaskNames |-> IF t = HealthTask THEN had[t] ELSE had[t] + 1]

\* lines 106-116: one create_task per timeframe, one for _persist_risk_state
\* and one for _monitor_system_health
LaunchedTasks(had) == [t \in TaskNames |-> had[t] + 1]

StartMonitoring ==
    /\ pc[Caller] = "idle"
    /\ \A p \in Procs \ {Caller} : pc[p] = "unstarted"
    /\ launched' = LaunchedTasks(launched)
    /\ pc' = [p \in Procs |->
                 IF p \in Monitors /\ launched'[p] > 0 THEN "sleep"
                 ELSE IF p = PersistTask /\ launched'[p] > 0 THEN "persist"
                 ELSE pc[p]]
    /\ ret' = [op |-> "start_monitoring", status |-> "returned", severity |-> 0,
               actions |-> <<>>, value |-> TRUE, error |-> NoError,
               delegated |-> FALSE]
    /\ UNCHANGED <<emergency_stop, positions, risk_metrics_history, openOrders,
                   persisted, frame, sd_returns>>
    /\ UNCHANGED tradingVars

NextRisk ==
    \/ AssessPortfolioRisk
    \/ ValidateTrade
    \/ EmergencyShutdownCall
    \/ \E a \in Outcome, sev \in Severities : HandleRiskBreach(a, sev)
    \/ StartMonitoring
    \/ \E p \in Procs : ShutdownCancel(p)
    \/ \E p \in Procs : ShutdownSecure(p)
    \/ \E p \in Procs : PersistCycle(p)
    \/ \E p \in Procs : BreachReduce(p)
    \/ \E p \in Monitors : MonitorCycle(p)

SpecRisk == Init /\ [][NextRisk]_vars

\* asyncio runs every task that is ready: an awaited collaborator completes and
\* a sleep ends
FairSpecRisk ==
    /\ SpecRisk
    /\ \A p \in Procs :
          /\ WF_vars(ShutdownCancel(p))
          /\ WF_vars(ShutdownSecure(p))
          /\ WF_vars(PersistCycle(p))
          /\ WF_vars(BreachReduce(p))

(***************************************************************************)
(* ArbitrageExecutor (arbitrage/executor.py).  One execute_opportunity     *)
(* call is followed from its synchronous prefix through the awaits of its  *)
(* retry loop.  The venue behind _execute_trade is the environment: an     *)
(* attempt ends with every leg successful, with a leg reporting failure,   *)
(* with the timeout of wait_for, or with an exception.                     *)
(***************************************************************************)
Equities == {0, 100}
Sizes == {0, 10}
Prices == {5, 6}
\* what validate_execution answers; an exception inside it is also False
ExecChecks == {"pass", "fail"}
\* an opportunity together with the order books it is executed against, and
\* whether the body raises outside the retry loop (lines 82-151)
Opportunities == [check : ExecChecks, size : Sizes, ask : Prices, bid : Prices,
                  fault : BOOLEAN]
AttemptOutcomes == {"success", "leg_failed", "timeout", "raise"}

ExecError(text, attempt) == [text |-> text, attempt |-> attempt]

\* BaseStrategy.validate_trade (base.py) for a trade of the given value on a
\* pair holding `existing`: the position size in basis points of the equity must
\* lie within the limits and the concentration must not exceed one half.  The
\* strategy of the executor has no market data, so the slippage check is skipped.
\* A division by a zero equity ends in the except branch or in an infinite size;
\* the trade is invalid either way.
BaseValidateTrade_NoUpperLimit(value, existing, equity) ==
    IF equity = 0
    THEN [valid |-> FALSE, size_error |-> TRUE]
    ELSE LET size_error == value * 10000 < MIN_POSITION_SIZE_BPS * equity
             concentration_error == 2 * (value + existing) > equity
         IN  [valid |-> ~size_error /\ ~concentration_error,
              size_error |-> size_error]

BaseValidateTrade(value, existing, equity) ==
    IF equity = 0
    THEN [valid |-> FALSE, size_error |-> TRUE]
    ELSE LET size_error ==
                 \/ value * 10000 < MIN_POSITION_SIZE_BPS * equity
                 \/ value * 10000 > MAX_POSITION_SIZE_BPS * equity
             concentration_error == 2 * (value + existing) > equity
         IN  [valid |-> ~size_error /\ ~concentration_error,
              size_error |-> size_error]

\* calculate_execution_path: a buy leg and a sell leg of the same size, or
\* nothing when no size is executable
CalculateExecutionPath(opp) ==
    IF opp.size > 0
    THEN << [type |-> "buy", value |-> opp.size * opp.ask],
            [type |-> "sell", value |-> opp.size * opp.bid] >>
    ELSE <<>>

\* an update that counts a failed execution in the total only
UpdateExecutionStats_NoFailed(stats, success) ==
    [total_executions |-> stats.total_executions + 1,
     successful_executions |->
         stats.successful_executions + (IF success THEN 1 ELSE 0),
     failed_executions |-> stats.failed_executions]

\* _update_execution_stats
UpdateExecutionStats(stats, success) ==
    [total_executions |-> stats.total_executions + 1,
     successful_executions |->
         stats.successful_executions + (IF success THEN 1 ELSE 0),
     failed_executions |-> stats.failed_executions + (IF success THEN 0 ELSE 1)]

\* the owner assigns the portfolio of the executor's strategy
SetPortfolio(e) ==
    /\ ex_pc = "idle"
    /\ ex_equity # e
    /\ ex_equity' = e
    /\ UNCHANGED <<execution_stats, ex_pc, ex_bundle, ex_attempt, ex_last, ex_errors,
                   ex_result, ex_calls>>
    /\ UNCHANGED riskVars
    /\ UNCHANGED <<gridVars, unitVars>>

\* a return of execute_opportunity before the retry loop (lines 87, 93, 109,
\* 155): the result carries the message and the statistics are not touched
EarlyReturn(text) ==
    /\ ex_result' = [returned |-> TRUE, success |-> FALSE,
                     errors |-> <<ExecError(text, 0)>>, attempts |-> 0]
    /\ ex_calls' = ex_calls + 1
    /\ ex_last' = "none"
    /\ UNCHANGED <<execution_stats, ex_equity, ex_pc, ex_bundle, ex_attempt,
                   ex_errors>>

\* lines 96-114: the loop over the execution path returns at the first leg the
\* strategy refuses, so the bundle is complete only if every leg was accepted
LegsValidated_FirstOnly(path, equity) ==
    BaseValidateTrade(path[1].value, 0, equity).valid

LegsValidated(path, equity) ==
    \A i \in 1..Len(path) : BaseValidateTrade(path[i].value, 0, equity).valid

\* lines 72-127: validation, path, validation of every leg by the executor's
\* own BaseStrategy, and the submission of the first attempt
ExecuteOpportunity(opp) ==
    /\ ex_pc = "idle"
    /\ ex_calls < MaxExecCalls
    /\ LET path == CalculateExecutionPath(opp) IN
       IF opp.check # "pass"
       THEN EarlyReturn("Validation failed")
       ELSE IF path = <<>>
       THEN EarlyReturn("Failed to calculate execution path")
       ELSE IF ~LegsValidated(path, ex_equity)
       THEN EarlyReturn("Trade validation failed")
       ELSE IF opp.fault
       THEN EarlyReturn("Execution failed")
       ELSE /\ ex_bundle' = path
            /\ ex_attempt' = 1
            /\ ex_pc' = "awaiting"
            /\ ex_last' = "none"
            /\ ex_errors' = <<>>
            /\ UNCHANGED <<execution_stats, ex_equity, ex_result, ex_calls>>
    /\ UNCHANGED riskVars
    /\ UNCHANGED <<gridVars, unitVars>>

\* lines 117-145: the loop goes on to another attempt unless this one succeeded
\* (break) or was the last of range(MAX_EXECUTION_ATTEMPTS)
RetryAfter_OneMore(outcome, attempt) ==
    outcome # "success" /\ attempt <= MAX_EXECUTION_ATTEMPTS

RetryAfter(outcome, attempt) ==
    outcome # "success" /\ attempt < MAX_EXECUTION_ATTEMPTS

\* lines 131-145: the except branches append a message; an attempt whose legs
\* did not all succeed appends nothing
AttemptErrors(errors, outcome, attempt) ==
    IF outcome = "timeout"
    THEN Append(errors, ExecError("Execution timeout on attempt", attempt))
    ELSE IF outcome = "raise"
    THEN Append(errors, ExecError("Execution error on attempt", attempt))
    ELSE errors

\* the wait_for of the current attempt ends (lines 125-145); the loop submits
\* the bundle again, or ends and the statistics are updated (lines 147-151)
AttemptDone(o) ==
    /\ ex_pc = "awaiting"
    /\ ex_last' = o
    /\ IF RetryAfter(o, ex_attempt)
       THEN /\ ex_attempt' = ex_attempt + 1
            /\ ex_errors' = AttemptErrors(ex_errors, o, ex_attempt)
            /\ UNCHANGED <<execution_stats, ex_pc, ex_bundle, ex_result, ex_calls>>
       ELSE /\ execution_stats' = UpdateExecutionStats(execution_stats, o = "success")
            /\ ex_result' = [returned |-> TRUE, success |-> (o = "success"),
                             errors |-> AttemptErrors(ex_errors, o, ex_attempt),
                             attempts |-> ex_attempt]
            /\ ex_calls' = ex_calls + 1
            /\ ex_pc' = "idle"
            /\ ex_bundle' = <<>>
            /\ ex_attempt' = 0
            /\ ex_errors' = <<>>
    /\ UNCHANGED ex_equity
    /\ UNCHANGED riskVars
    /\ UNCHANGED <<gridVars, unitVars>>

NextExec ==
    \/ \E e \in Equities : SetPortfolio(e)
    \/ \E opp \in Opportunities : ExecuteOpportunity(opp)
    \/ \E o \in AttemptOutcomes : AttemptDone(o)

\* the executor beside a RiskManager whose emergency_shutdown may be called
SpecExec ==
    Init /\ [][\/ NextExec
               \/ EmergencyShutdownCall
               \/ \E p \in Procs : ShutdownCancel(p)
               \/ \E p \in Procs : ShutdownSecure(p)
               \/ \E p \in Procs : PersistCycle(p)]_vars

(***************************************************************************)
(* GridStrategyManager (grid/manager.py).  setup_grid has no suspension    *)
(* point; rebalance_grid is suspended in _get_market_data and in           *)
(* _cancel_grid_orders.  GridCalculator.optimize_grid_parameters is        *)
(* followed as far as its result: a number of levels clipped to the        *)
(* calculator's range, or a ValueError.                                    *)
(***************************************************************************)
CurrentPrices == {100, 102}
\* grid_spacing, in percent of the price
GridSpacings == {1}
\* how validate_market_data and optimize_grid_parameters end, and the
\* parameters the optimizer returns
GridPlans == [step : {"bad_data", "optimize_raise", "ok"},
              grid_levels : MIN_GRID_LEVELS..MaxGridLevels,
              grid_spacing : GridSpacings]

\* _initialize_grid_levels: one level for every i of
\* range(-num_levels // 2, num_levels // 2 + 1); the price of a level is kept in
\* hundredths
InitializeGridLevels(params, current_price) ==
    LET lo == (0 - params.grid_levels) \div 2
        hi == params.grid_levels \div 2
    IN  [k \in 1..(hi - lo + 1) |->
            LET i == lo + k - 1 IN
            [price |-> current_price * (100 + i * params.grid_spacing),
             side |-> IF i < 0 THEN "buy" ELSE "sell",
             status |-> "pending"]]

GridState(params, current_price) ==
    [levels |-> InitializeGridLevels(params, current_price),
     params |-> [grid_levels |-> params.grid_levels,
                 grid_spacing |-> params.grid_spacing]]

\* active_grids[pair] = grid
StoreGrid(grids, pair, grid) ==
    [q \in DOMAIN grids \cup {pair} |-> IF q = pair THEN grid ELSE grids[q]]

GridRet(op, status) == [op |-> op, status |-> status]

\* the grid manager's call of risk_manager.validate_trade returns r
RiskManagerValidates(r) ==
    /\ ValueRoom(r.positions)
    /\ ret' = [op |-> "validate_trade", status |-> "returned", severity |-> 0,
               actions |-> <<>>, value |-> r.valid, error |-> r.error,
               delegated |-> r.delegated]
    /\ positions' = r.positions
    /\ UNCHANGED <<emergency_stop, risk_metrics_history, openOrders, persisted, pc,
                   frame, sd_returns, launched>>

\* GRID_UPDATE_INTERVAL = 300.0 and HEALTH_CHECK_INTERVAL = 60.0, in seconds
GRID_UPDATE_INTERVAL == 300
HEALTH_CHECK_INTERVAL == 60
\* REBALANCE_THRESHOLD = 0.02, in percent
REBALANCE_THRESHOLD_PCT == 2

\* what setup_grid leaves behind when it has stored (line 129) the grid of
\* pair: a new key goes to the end of the dict, last_update is now, and a for
\* loop suspended in _get_current_price for pair keeps the object it was given
GridStored(pair, stored) ==
    IF stored
    THEN /\ grid_order' = IF pair \in DOMAIN active_grids
                             THEN grid_order
                             ELSE Append(grid_order, pair)
         /\ grid_fresh' = grid_fresh \cup {pair}
         /\ gm_grid' = IF gm_pc = "price" /\ gm_pair = pair /\ gm_grid = <<>>
                           THEN active_grids[pair].levels
                           ELSE gm_grid
    ELSE UNCHANGED <<grid_order, grid_fresh, gm_grid>>

\* _check_grid_health (lines 342-361); fresh holds the pairs whose last_update
\* is at most HEALTH_CHECK_INTERVAL old
CheckGridHealth(pair, fresh) ==
    /\ pair \in DOMAIN active_grids
    /\ pair \in fresh
    /\ active_grids[pair].levels # <<>>

\* min(level_prices, key=lambda x: abs(x - current_price)): the first of the
\* nearest levels; prices in hundredths
Distance(a, b) == IF a >= b THEN a - b ELSE b - a

ClosestLevel(levels, price) ==
    LET near(k) == \A j \in 1..Len(levels) :
                       Distance(levels[k].price, price) <=
                           Distance(levels[j].price, price)
        first == CHOOSE k \in 1..Len(levels) :
                     near(k) /\ \A j \in 1..(k - 1) : ~near(j)
    IN  levels[first].price

\* a comparison that forgets the abs(), so that a price below the grid never
\* asks for a rebalance
DeviationExceeds_Signed(levels, current_price) ==
    LET closest_level == ClosestLevel(levels, current_price * 100)
    IN  (current_price * 100 - closest_level) * 100 >
            REBALANCE_THRESHOLD_PCT * closest_level

\* abs(_calculate_grid_deviation(levels, current_price)) > REBALANCE_THRESHOLD
\* (lines 174-180 and 363-369)
DeviationExceeds(levels, current_price) ==
    LET closest_level == ClosestLevel(levels, current_price * 100)
    IN  Distance(current_price * 100, closest_level) * 100 >
            REBALANCE_THRESHOLD_PCT * closest_level

\* asyncio.sleep(GRID_UPDATE_INTERVAL) at the head of the loop: a last_update
\* written before the sleep began is older than the health window when the
\* sleep ends; only _check_grid_health reads last_update
AfterSleep(fresh) ==
    IF GRID_UPDATE_INTERVAL > HEALTH_CHECK_INTERVAL THEN {} ELSE fresh

\* the except branch of monitor_and_adjust (lines 191-194): the for loop is
\* abandoned and asyncio.sleep(1) is awaited
LoopRaises(cyc, fresh) ==
    /\ gm_pc' = "backoff"
    /\ gm_iter' = NoIter
    /\ gm_pair' = ""
    /\ gm_grid' = <<>>
    /\ gm_cycle' = cyc
    /\ grid_fresh' = fresh

\* the first position from `from` on whose pair passes the health check
RECURSIVE NextHealthy(_, _)
NextHealthy(from, fresh) ==
    IF from > Len(grid_order) THEN from
    ELSE IF CheckGridHealth(grid_order[from], fresh) THEN from
    ELSE NextHealthy(from + 1, fresh)

\* the for loop over active_grids.items() from position `from` to its next
\* suspension (lines 166-172): the iterator raises if the dict has grown since
\* the loop began, unhealthy pairs are passed over, the first healthy pair is
\* held while _get_current_price is awaited, and past the last pair the task
\* sleeps again
LoopContinues(used, from, cyc, fresh) ==
    LET k == NextHealthy(from, fresh)
        skipped == {grid_order[i] : i \in from..(k - 1)}
        seen == [q \in DOMAIN cyc |-> IF q \in skipped THEN "skipped" ELSE cyc[q]]
    IN  IF Len(grid_order) # used
        THEN LoopRaises(cyc, fresh)
        ELSE IF k > Len(grid_order)
        THEN /\ gm_pc' = "sleep"
             /\ gm_iter' = NoIter
             /\ gm_pair' = ""
             /\ gm_grid' = <<>>
             /\ gm_cycle' = seen
             /\ grid_fresh' = AfterSleep(fresh)
        ELSE /\ gm_pc' = "price"
             /\ gm_iter' = [used |-> used, pos |-> k]
             /\ gm_pair' = grid_order[k]
             /\ gm_grid' = <<>>
             /\ gm_cycle' = seen
             /\ grid_fresh' = fresh

\* how a rebalance_grid call gives control back: to the for loop of
\* monitor_and_adjust (line 189, or the except branch if it raised), or to
\* the owner
RebalanceReturns(by, raised, fresh) ==
    /\ IF by = "monitor"
       THEN IF raised
            THEN LoopRaises(gm_cycle, fresh)
            ELSE LoopContinues(gm_iter.used, gm_iter.pos + 1, gm_cycle, fresh)
       ELSE /\ grid_fresh' = fresh
            /\ UNCHANGED monVars
    /\ UNCHANGED <<grid_order, market_price>>

\* setup_grid (lines 100-154)
SetupGrid(pair, price, plan, t, out) ==
    /\ IF plan.step # "ok"
       THEN /\ g_ret' = GridRet("setup_grid", "raised")
            /\ UNCHANGED <<active_grids, riskVars>>
       ELSE LET r == RMValidateTrade(emergency_stop, positions, t, out) IN
            /\ RiskManagerValidates(r)
            /\ IF r.valid
               THEN /\ active_grids' =
                           StoreGrid(active_grids, pair, GridState(plan, price))
                    /\ g_ret' = GridRet("setup_grid", "success")
               ELSE /\ g_ret' = GridRet("setup_grid", "raised")
                    /\ UNCHANGED active_grids
    /\ GridStored(pair, g_ret'.status = "success")
    /\ UNCHANGED <<rebalance_events, rebalance_failures, g_pc, g_frame, market_price,
                   gm_pc, gm_iter, gm_pair, gm_cycle>>
    /\ UNCHANGED <<execVars, unitVars>>

\* an except branch that forgets to count the failure
RebalanceFails_NoCount ==
    /\ UNCHANGED rebalance_failures
    /\ g_ret' = GridRet("rebalance_grid", "raised")
    /\ g_pc' = "idle"
    /\ g_frame' = NoGridFrame
    /\ RebalanceReturns(g_frame.by, TRUE, grid_fresh)
    /\ UNCHANGED <<active_grids, rebalance_events>>

\* the except branch of rebalance_grid (lines 317-320)
RebalanceFails ==
    /\ rebalance_failures' = rebalance_failures + 1
    /\ g_ret' = GridRet("rebalance_grid", "raised")
    /\ g_pc' = "idle"
    /\ g_frame' = NoGridFrame
    /\ RebalanceReturns(g_frame.by, TRUE, grid_fresh)
    /\ UNCHANGED <<active_grids, rebalance_events>>

\* lines 262-267: look the grid up and await _get_market_data
RebalanceGrid(pair, price) ==
    /\ g_pc = "idle"
    /\ rebalance_events + rebalance_failures < MaxRebalances
    /\ IF pair \notin DOMAIN active_grids
       THEN RebalanceFails
       ELSE /\ g_pc' = "rb_data"
            /\ g_frame' = [pair |-> pair, price |-> price, grid_levels |-> 0,
                           grid_spacing |-> 0, by |-> "owner"]
            /\ UNCHANGED <<active_grids, rebalance_events, rebalance_failures, g_ret,
                           grid_order, grid_fresh, market_price, monVars>>
    /\ UNCHANGED <<riskVars, execVars, unitVars>>

\* lines 265-282: the market data arrives, the parameters are optimized, the
\* risk manager validates, and _cancel_grid_orders is awaited
RebalanceValidate(d, plan, t, out) ==
    /\ g_pc = "rb_data"
    /\ IF d = "raise" \/ plan.step # "ok"
       THEN /\ RebalanceFails
            /\ UNCHANGED riskVars
       ELSE LET r == RMValidateTrade(emergency_stop, positions, t, out) IN
            /\ RiskManagerValidates(r)
            /\ IF r.valid
               THEN /\ g_pc' = "rb_cancel"
                    /\ g_frame' = [g_frame EXCEPT
                                      !.grid_levels = plan.grid_levels,
                                      !.grid_spacing = plan.grid_spacing]
                    /\ UNCHANGED <<active_grids, rebalance_events, rebalance_failures,
                                   g_ret, grid_order, grid_fresh, market_price,
                                   monVars>>
               ELSE RebalanceFails
    /\ UNCHANGED <<execVars, unitVars>>

\* lines 282-315: the orders are cancelled, the new levels are built and stored
\* and the rebalance is recorded
RebalanceInstall(o) ==
    /\ g_pc = "rb_cancel"
    /\ IF o = "raise"
       THEN RebalanceFails
       ELSE /\ active_grids' =
                   StoreGrid(active_grids, g_frame.pair,
                             GridState(g_frame, g_frame.price))
            /\ rebalance_events' = rebalance_events + 1
            /\ g_ret' = GridRet("rebalance_grid", "success")
            /\ g_pc' = "idle"
            /\ g_frame' = NoGridFrame
            /\ RebalanceReturns(g_frame.by, FALSE, grid_fresh \cup {g_frame.pair})
            /\ UNCHANGED rebalance_failures
    /\ UNCHANGED <<riskVars, execVars, unitVars>>

\* monitor_and_adjust is started (lines 160-164): is_running is set and the
\* task sleeps
MonitorAndAdjust ==
    /\ gm_pc = "unstarted"
    /\ gm_pc' = "sleep"
    /\ grid_fresh' = AfterSleep(grid_fresh)
    /\ UNCHANGED <<gm_iter, gm_pair, gm_grid, gm_cycle>>
    /\ UNCHANGED <<active_grids, rebalance_events, rebalance_failures, g_pc, g_frame,
                   g_ret, grid_order, market_price>>
    /\ UNCHANGED <<riskVars, execVars, unitVars>>

\* the sleep ends and the for loop begins (lines 164-166)
GridCycle ==
    /\ gm_pc = "sleep"
    /\ LoopContinues(Len(grid_order), 1,
                     [q \in DOMAIN active_grids |-> "unvisited"], grid_fresh)
    /\ UNCHANGED <<active_grids, rebalance_events, rebalance_failures, g_pc, g_frame,
                   g_ret, grid_order, market_price>>
    /\ UNCHANGED <<riskVars, execVars, unitVars>>

\* the levels of the grid object the for loop holds
LoopLevels ==
    IF gm_grid = <<>> THEN active_grids[gm_pair].levels ELSE gm_grid

\* _get_current_price returns or raises (lines 171-189): the deviation is
\* taken and either rebalance_grid is called, which runs to its await of
\* _get_market_data, or the metrics are updated and the loop goes on
GridPrice(o) ==
    /\ gm_pc = "price"
    /\ IF o = "raise"
       THEN /\ LoopRaises(gm_cycle, grid_fresh)
            /\ UNCHANGED <<g_pc, g_frame>>
       ELSE IF DeviationExceeds(LoopLevels, market_price[gm_pair])
       THEN /\ g_pc = "idle"
            /\ rebalance_events + rebalance_failures < MaxRebalances
            /\ g_pc' = "rb_data"
            /\ g_frame' = [pair |-> gm_pair, price |-> market_price[gm_pair],
                           grid_levels |-> 0, grid_spacing |-> 0, by |-> "monitor"]
            /\ gm_pc' = "rebalance"
            /\ gm_cycle' = [gm_cycle EXCEPT ![gm_pair] = "rebalanced"]
            /\ UNCHANGED <<gm_iter, gm_pair, gm_grid, grid_fresh>>
       ELSE /\ LoopContinues(gm_iter.used, gm_iter.pos + 1,
                             [gm_cycle EXCEPT ![gm_pair] = "quiet"], grid_fresh)
            /\ UNCHANGED <<g_pc, g_frame>>
    /\ UNCHANGED <<active_grids, rebalance_events, rebalance_failures, g_ret,
                   grid_order, market_price>>
    /\ UNCHANGED <<riskVars, execVars, unitVars>>

\* asyncio.sleep(1) of the except branch ends and the loop sleeps again
\* (lines 194 and 164)
GridBackoffEnds ==
    /\ gm_pc = "backoff"
    /\ gm_pc' = "sleep"
    /\ grid_fresh' = AfterSleep(grid_fresh)
    /\ UNCHANGED <<gm_iter, gm_pair, gm_grid, gm_cycle>>
    /\ UNCHANGED <<active_grids, rebalance_events, rebalance_failures, g_pc, g_frame,
                   g_ret, grid_order, market_price>>
    /\ UNCHANGED <<riskVars, execVars, unitVars>>

\* the venue's price of pair moves
PriceMoves(pair, price) ==
    /\ market_price[pair] # price
    /\ market_price' = [market_price EXCEPT ![pair] = price]
    /\ UNCHANGED <<active_grids, rebalance_events, rebalance_failures, g_pc, g_frame,
                   g_ret, grid_order, grid_fresh, monVars>>
    /\ UNCHANGED <<riskVars, execVars, unitVars>>

\* more than HEALTH_CHECK_INTERVAL has passed since the last_update of pair
TimePasses(pair) ==
    /\ pair \in grid_fresh
    /\ grid_fresh' = grid_fresh \ {pair}
    /\ UNCHANGED <<active_grids, rebalance_events, rebalance_failures, g_pc, g_frame,
                   g_ret, grid_order, market_price, monVars>>
    /\ UNCHANGED <<riskVars, execVars, unitVars>>

NextGrid ==
    \/ \E pair \in Pairs, price \in CurrentPrices, plan \in GridPlans,
          t \in Trades, out \in ValidationOutcomes :
          SetupGrid(pair, price, plan, t, out)
    \/ \E pair \in Pairs, price \in CurrentPrices : RebalanceGrid(pair, price)
    \/ \E d \in Outcome, plan \in GridPlans, t \in Trades, out \in ValidationOutcomes :
          RebalanceValidate(d, plan, t, out)
    \/ \E o \in Outcome : RebalanceInstall(o)

\* the grid manager beside a RiskManager whose emergency_shutdown may be called
SpecGrid ==
    Init /\ [][\/ NextGrid
               \/ EmergencyShutdownCall
               \/ \E p \in Procs : ShutdownCancel(p)
               \/ \E p \in Procs : ShutdownSecure(p)
               \/ \E p \in Procs : PersistCycle(p)]_vars

\* the plans the monitored grids are built from
MonitorPlans == [step : {"optimize_raise", "ok"},
                 grid_levels : {MaxGridLevels},
                 grid_spacing : GridSpacings]

\* the steps of the monitor_and_adjust task
GridMonitorStep ==
    \/ MonitorAndAdjust
    \/ GridCycle
    \/ \E o \in Outcome : GridPrice(o)
    \/ GridBackoffEnds

\* the steps of a rebalance_grid call in flight
RebalanceStep ==
    \/ \E d \in Outcome, plan \in MonitorPlans, t \in Trades,
          out \in {"approve", "reject"} : RebalanceValidate(d, plan, t, out)
    \/ \E o \in Outcome : RebalanceInstall(o)

NextGridMonitor ==
    \/ \E pair \in GridPairs, plan \in MonitorPlans, t \in Trades,
          out \in {"approve", "reject"} :
          SetupGrid(pair, market_price[pair], plan, t, out)
    \/ \E pair \in GridPairs : RebalanceGrid(pair, market_price[pair])
    \/ RebalanceStep
    \/ GridMonitorStep
    \/ \E pair \in GridPairs, price \in MonitorPrices : PriceMoves(pair, price)
    \/ \E pair \in GridPairs : TimePasses(pair)

\* the grid manager with its monitor_and_adjust task, its owner setting grids
\* up and rebalancing them, beside moving prices and passing time
SpecGridMonitor == Init /\ [][NextGridMonitor]_vars

\* the monitor task and the rebalance_grid call in flight are scheduled again
\* and again
FairSpecGridMonitor ==
    SpecGridMonitor /\ WF_vars(GridMonitorStep) /\ WF_vars(RebalanceStep)

(***************************************************************************)
(* Properties of the RiskManager.                                          *)
(***************************************************************************)
\* the fields of the RiskManager object
rmState == <<emergency_stop, positions, risk_metrics_history>>

\* C1: in every state where emergency_stop is true, validate_trade returns
\* (false, {'error': text containing 'Emergency stop'}) for every trade, without
\* delegating to RiskCalculator.validate_trade (whose simulation would touch the
\* positions).
C1_EmergencyStopRejects ==
    [][(emergency_stop /\ ValidateTrade) =>
          /\ ret'.op = "validate_trade"
          /\ ret'.value = FALSE
          /\ Contains(ret'.error, <<"Emergency", "stop">>)
          /\ ~ret'.delegated
          /\ positions' = positions]_vars

\* a validate_trade has been rejected by the closed gate
C1_Witness ==
    /\ emergency_stop
    /\ ret.op = "validate_trade"
    /\ ret.error = EmergencyStopError

\* C2: once emergency_stop is true it is true in every later state, whatever
\* operation of the RiskManager runs.
C2_EmergencyStopTerminal == [][emergency_stop => emergency_stop']_vars

\* the flag is set, a shutdown has returned, monitoring runs and a persistence
\* cycle has written the stopped state
C2_Witness ==
    /\ emergency_stop
    /\ sd_returns >= 1
    /\ persisted.written /\ persisted.emergency_stop
    /\ \E p \in Monitors : pc[p] = "sleep"

\* a step of a direct emergency_shutdown call made after an earlier one returned
SecondShutdownStep ==
    /\ sd_returns >= 1
    /\ \/ EmergencyShutdownCall
       \/ ~frame[Caller].hb /\ ShutdownCancel(Caller)
       \/ ~frame[Caller].hb /\ ShutdownSecure(Caller)
       \/ ~frame[Caller].hb /\ PersistCycle(Caller)

\* C3: emergency_shutdown is idempotent: after a call has returned the flag is
\* set, a call returns a value and never an exception, and a second call changes
\* no field of the RiskManager.
C3_ShutdownIdempotent ==
    /\ [](sd_returns >= 1 => emergency_stop)
    /\ [](ret.op = "emergency_shutdown" => ret.status = "returned")
    /\ [][SecondShutdownStep => rmState' = rmState]_vars

\* two direct calls have returned
C3_Witness == sd_returns = 2 /\ emergency_stop /\ ret.op = "emergency_shutdown"

\* C5: handle_risk_breach on an event of severity >= 0.9 invokes
\* emergency_shutdown, which sets emergency_stop, and then returns
\* 'emergency_shutdown' among actions_taken with emergency_stop still true.
C5_CriticalBreachShutsDown ==
    \A p \in Procs :
        [](frame[p].hb /\ frame[p].severity >= CRITICAL =>
              /\ emergency_stop
              /\ <>(/\ ~frame[p].hb
                    /\ ret.op = "handle_risk_breach"
                    /\ ret.status = "handled"
                    /\ Contains(ret.actions, <<"emergency_shutdown">>)
                    /\ emergency_stop))

\* a step of task p inside a handle_risk_breach call of severity sev
BreachStep(p, sev) ==
    \/ p = Caller /\ HandleRiskBreach("ok", sev)
    \/ p \in Monitors /\ \E md \in Outcome : MonitorBreach(p, md, "ok", sev)
    \/ frame[p].hb /\ frame[p].severity = sev /\ BreachReduce(p)

\* C6: below CRITICAL handle_risk_breach never sets emergency_stop; with
\* 0.7 <= severity < 0.9 a handled breach reports 'reduce_exposure' and
\* 'increase_monitoring' (if _reduce_risk_exposure raises, the call returns the
\* error record and the positions are as before); with severity < 0.7 it returns
\* at once with no action and leaves the positions alone.
C6_GraduatedResponse ==
    [][\A p \in Procs, sev \in Severities :
          (sev < CRITICAL /\ BreachStep(p, sev)) =>
              /\ emergency_stop' = emergency_stop
              /\ sev < WARNING =>
                    /\ ret' = Handled(sev, <<>>)
                    /\ positions' = positions
              /\ sev >= WARNING =>
                    \/ pc'[p] = "hb_reduce" /\ positions' = positions
                    \/ ret' = Handled(sev, <<"reduce_exposure", "increase_monitoring">>)
                    \/ ret' = BreachError(sev) /\ positions' = positions]_vars

\* a WARNING breach has been handled by reducing exposure, the gate still open
C6_Witness ==
    /\ ret = Handled(WARNING, <<"reduce_exposure", "increase_monitoring">>)
    /\ ~emergency_stop

(***************************************************************************)
(* BaseStrategy.validate_trade (base.py) called directly on a strategy     *)
(* whose portfolio the owner assigns.  The trade carries its size and      *)
(* price and whether they are numpy numbers, which decides what a division *)
(* by a zero equity does.                                                  *)
(***************************************************************************)
StrategyEquities == {0, 100, 200}
StrategyPositions == {0, 40}
TradeSizes == {0, 1, 5, 10}
TradePrices == {1, 5, 6, 11}
StrategyPortfolios == [equity : StrategyEquities, position : StrategyPositions]
StrategyTrades == [size : TradeSizes, price : TradePrices, numpy : BOOLEAN]

\* base.py:184-224.  With python floats a zero equity raises ZeroDivisionError
\* at line 188 and the except branch returns (False, {'error': ...}); with numpy
\* numbers the quotient is infinite and the size limit is exceeded.
StrategyValidateTrade(trade, portfolio) ==
    IF portfolio.equity = 0 /\ ~trade.numpy
    THEN [valid |-> FALSE, size_error |-> FALSE, error |-> TRUE]
    ELSE LET r == BaseValidateTrade(trade.size * trade.price, portfolio.position,
                                    portfolio.equity)
         IN  [valid |-> r.valid, size_error |-> r.size_error, error |-> FALSE]

\* the owner assigns portfolio_state
AssignPortfolio(pf) ==
    /\ bs_portfolio # pf
    /\ bs_portfolio' = pf
    /\ UNCHANGED <<bs_ret, lq_ret, dt_threshold, dt_market, dt_ret>>
    /\ UNCHANGED <<riskVars, execVars, gridVars, sl_ret, cr_ret>>

\* one call of validate_trade
ValidateTradeCall(trade) ==
    /\ LET r == StrategyValidateTrade(trade, bs_portfolio) IN
       bs_ret' = [called |-> TRUE, trade |-> trade, portfolio |-> bs_portfolio,
                  valid |-> r.valid, size_error |-> r.size_error,
                  error |-> r.error]
    /\ UNCHANGED <<bs_portfolio, lq_ret, dt_threshold, dt_market, dt_ret>>
    /\ UNCHANGED <<riskVars, execVars, gridVars, sl_ret, cr_ret>>

NextStrategy ==
    \/ \E pf \in StrategyPortfolios : AssignPortfolio(pf)
    \/ \E trade \in StrategyTrades : ValidateTradeCall(trade)

SpecStrategy == Init /\ [][NextStrategy]_vars

(***************************************************************************)
(* ArbitrageDetector.validate_liquidity (detector.py:88-124), a static     *)
(* method.  Prices and volumes are whole numbers; required_volume is the   *)
(* quotient of two whole numbers, because validate_opportunity passes      *)
(* MIN_LIQUIDITY_REQUIREMENT / price.                                      *)
(***************************************************************************)
MaxBookLevels == 2
LevelPrices == {0, 990, 995, 1000}
LevelVolumes == {0, 5}
BookLevels == [price : LevelPrices, volume : LevelVolumes]
LevelLists == UNION {[1..n -> BookLevels] : n \in 0..MaxBookLevels}
BookSides ==
    {NoSide, [form |-> "malformed", levels |-> <<>>]}
        \cup {[form |-> "levels", levels |-> l] : l \in LevelLists}
OrderBooks == [bids : BookSides, asks : BookSides]
RequiredVolumes == {0, 5, 10, 11}

\* lines 102-107: a missing key raises KeyError, a value that is no table of
\* numbers raises in np.array, and an empty list has no column 1
SideRaises(side) == side.form # "levels" \/ side.levels = <<>>

\* np.cumsum(depth[:, 1])[k - 1]
RECURSIVE CumVolume(_, _)
CumVolume(levels, k) ==
    IF k = 0 THEN 0 ELSE CumVolume(levels, k - 1) + levels[k].volume

\* lines 110-111: np.any(cum_volume >= required_volume)
HasLiquidity(levels, num, den) ==
    \E k \in 1..Len(levels) : CumVolume(levels, k) * den >= num

\* lines 115-119: |depth[0, 0] - depth[-1, 0]| / depth[0, 0] < 0.01; the
\* division by a first price of zero gives inf or nan, which is not below 0.01
ImpactAcceptable(levels) ==
    LET first == levels[1].price
        last == levels[Len(levels)].price
        move == IF first >= last THEN first - last ELSE last - first
    IN  first > 0 /\ 100 * move < first

ValidateLiquidity_BidOnly(market_data, num, den) ==
    IF SideRaises(market_data.bids) \/ SideRaises(market_data.asks)
    THEN FALSE
    ELSE IF HasLiquidity(market_data.bids.levels, num, den)
    THEN /\ ImpactAcceptable(market_data.bids.levels)
         /\ ImpactAcceptable(market_data.asks.levels)
    ELSE FALSE

\* validate_liquidity(market_data, num / den)
ValidateLiquidity(market_data, num, den) ==
    IF SideRaises(market_data.bids) \/ SideRaises(market_data.asks)
    THEN FALSE
    ELSE IF /\ HasLiquidity(market_data.bids.levels, num, den)
            /\ HasLiquidity(market_data.asks.levels, num, den)
    THEN /\ ImpactAcceptable(market_data.bids.levels)
         /\ ImpactAcceptable(market_data.asks.levels)
    ELSE FALSE

\* one call of validate_liquidity; the method is static and keeps nothing, so
\* a call does not depend on the calls before it and one call is followed
ValidateLiquidityCall(market_data, required_volume) ==
    /\ ~lq_ret.called
    /\ lq_ret' = [called |-> TRUE, market_data |-> market_data,
                  required_volume |-> required_volume,
                  value |-> ValidateLiquidity(market_data, required_volume, 1)]
    /\ UNCHANGED <<bs_portfolio, bs_ret, dt_threshold, dt_market, dt_ret>>
    /\ UNCHANGED <<riskVars, execVars, gridVars, sl_ret, cr_ret>>

NextLiquidity ==
    \E market_data \in OrderBooks, required_volume \in RequiredVolumes :
        ValidateLiquidityCall(market_data, required_volume)

SpecLiquidity == Init /\ [][NextLiquidity]_vars

(***************************************************************************)
(* ArbitrageDetector.validate_opportunity (detector.py:201-263) on a       *)
(* detector whose market data holds, for the pair of the opportunity, the  *)
(* row of the venue bought on and the row of the venue sold on.  Price     *)
(* differences are carried in hundredths of a basis point, the precision   *)
(* calculate_price_difference rounds to.                                   *)
(***************************************************************************)
GivenThresholds == {10, 20, 30}
DetectorPrices == {0, 3997, 4003, 4005, 4010}
DeepSide == [form |-> "levels", levels |-> <<[price |-> 1000, volume |-> 5]>>]
ThinSide == [form |-> "levels", levels |-> <<[price |-> 1000, volume |-> 0]>>]
MarketBooks == {[bids |-> DeepSide, asks |-> DeepSide],
                [bids |-> ThinSide, asks |-> ThinSide]}
Markets == [buy_price : DetectorPrices, sell_price : DetectorPrices,
            buy_book : MarketBooks, sell_book : MarketBooks]

\* np.round(x, 2) of x = n / d basis points, in hundredths: the nearest whole
\* number of hundredths, the even one when two are equally near
RoundHundredths(n, d) ==
    LET q == (100 * n) \div d
        r == (100 * n) % d
    IN  IF 2 * r < d THEN q
        ELSE IF 2 * r > d THEN q + 1
        ELSE IF q % 2 = 0 THEN q ELSE q + 1

\* calculate_price_difference (lines 63-86) for positive prices:
\* |price_b - price_a| / mean(price_a, price_b) * 10000, rounded to two decimals
CalculatePriceDifference(price_a, price_b) ==
    LET diff == IF price_b >= price_a THEN price_b - price_a ELSE price_a - price_b
    IN  RoundHundredths(2 * diff * 10000, price_a + price_b)

\* lines 221-263: a price that is not positive raises ValueError and a row that
\* is absent raises IndexError; the except branch returns False
ValidateOpportunity(market, threshold) ==
    IF market.buy_price <= 0 \/ market.sell_price <= 0
    THEN [valid |-> FALSE, price_difference_bps |-> 0]
    ELSE LET price_diff ==
                 CalculatePriceDifference(market.buy_price, market.sell_price)
         IN  IF price_diff < 100 * threshold
             THEN [valid |-> FALSE, price_difference_bps |-> 0]
             ELSE IF ~(/\ ValidateLiquidity(market.buy_book,
                                            MIN_LIQUIDITY_REQUIREMENT,
                                            market.buy_price)
                       /\ ValidateLiquidity(market.sell_book,
                                            MIN_LIQUIDITY_REQUIREMENT,
                                            market.buy_price))
             THEN [valid |-> FALSE, price_difference_bps |-> 0]
             ELSE [valid |-> TRUE, price_difference_bps |-> price_diff]

\* ArbitrageDetector(dex_configs, min_profit_threshold)
NewDetector(min_profit_threshold) ==
    /\ dt_threshold' = MinProfitThreshold(min_profit_threshold)
    /\ dt_market' = NoMarket
    /\ dt_ret' = NoOpportunityRet
    /\ UNCHANGED <<bs_portfolio, bs_ret, lq_ret>>
    /\ UNCHANGED <<riskVars, execVars, gridVars, sl_ret, cr_ret>>

\* update_market_data (lines 265-294) with a frame that has the columns
UpdateMarketData(new_data) ==
    /\ dt_market # new_data
    /\ dt_market' = new_data
    /\ UNCHANGED <<bs_portfolio, bs_ret, lq_ret, dt_threshold, dt_ret>>
    /\ UNCHANGED <<riskVars, execVars, gridVars, sl_ret, cr_ret>>

\* one call of validate_opportunity; it has no await that suspends it
ValidateOpportunityCall ==
    /\ LET r == ValidateOpportunity(dt_market, dt_threshold) IN
       dt_ret' = [called |-> TRUE, market |-> dt_market, threshold |-> dt_threshold,
                  valid |-> r.valid,
                  price_difference_bps |-> r.price_difference_bps]
    /\ UNCHANGED <<bs_portfolio, bs_ret, lq_ret, dt_threshold, dt_market>>
    /\ UNCHANGED <<riskVars, execVars, gridVars, sl_ret, cr_ret>>

NextDetector ==
    \/ \E m \in GivenThresholds : NewDetector(m)
    \/ \E new_data \in Markets : UpdateMarketData(new_data)
    \/ ValidateOpportunityCall

SpecDetector == Init /\ [][NextDetector]_vars

(***************************************************************************)
(* ArbitrageExecutor._calculate_slippage (executor.py:289-328) and the     *)
(* slippage gate of validate_execution (line 190).  The estimate is either *)
(* infinite or the quotient num / den of two whole numbers, in basis       *)
(* points.                                                                 *)
(***************************************************************************)
MaxAskLevels == 2
SlippageSizes == {0 - 1, 0, 5, 10}
AskPrices == {0, 10, 11}
AskVolumes == {0, 5}
AskLevels == [price : AskPrices, volume : AskVolumes]
AskSides ==
    {[form |-> "missing", levels |-> <<>>], [form |-> "list", levels |-> <<>>]}
        \cup {[form |-> "array", levels |-> l] :
                  l \in UNION {[1..n -> AskLevels] : n \in 0..MaxAskLevels}}

Infinite == [infinite |-> TRUE, num |-> 0, den |-> 1]
Finite(num, den) == [infinite |-> FALSE, num |-> num, den |-> den]

\* np.cumsum(orderbook['asks'][:, 1])[k - 1]
RECURSIVE CumAskVolume(_, _)
CumAskVolume(levels, k) ==
    IF k = 0 THEN 0 ELSE CumAskVolume(levels, k - 1) + levels[k].volume

\* np.sum(price_levels * np.minimum(trade_size, cumulative_volume)) over the
\* first k levels
RECURSIVE WeightedSum(_, _, _)
WeightedSum(levels, size, k) ==
    IF k = 0 THEN 0
    ELSE LET cum == CumAskVolume(levels, k)
         IN  WeightedSum(levels, size, k - 1)
                 + levels[k].price * (IF size <= cum THEN size ELSE cum)

\* lines 299-328: no row for the venue gives inf (304-305); a size that is not
\* positive gives 0.0 (310-311); a missing 'asks', a python list (which has no
\* [:, 1]) and an empty table raise and the except branch gives inf; a first
\* price of 0 divides by zero, which numpy answers with inf or nan
CalculateSlippage(row, size, asks) ==
    IF ~row THEN Infinite
    ELSE IF size <= 0 THEN Finite(0, 1)
    ELSE IF asks.form # "array" \/ asks.levels = <<>> THEN Infinite
    ELSE IF asks.levels[1].price = 0 THEN Infinite
    ELSE Finite((WeightedSum(asks.levels, size, Len(asks.levels))
                    - asks.levels[1].price * size) * 10000,
                asks.levels[1].price * size)

\* line 190: estimated_slippage <= MAX_SLIPPAGE_BPS
SlippageWithinLimits(slippage) ==
    ~slippage.infinite /\ slippage.num <= MAX_SLIPPAGE_BPS * slippage.den

\* one call of _calculate_slippage by validate_execution; the estimate reads
\* the market data and keeps nothing, so one call is followed
CalculateSlippageCall(row, size, asks) ==
    /\ ~sl_ret.called
    /\ LET r == CalculateSlippage(row, size, asks) IN
       sl_ret' = [called |-> TRUE, row |-> row, size |-> size, asks |-> asks,
                  infinite |-> r.infinite, num |-> r.num, den |-> r.den,
                  within_limits |-> SlippageWithinLimits(r)]
    /\ UNCHANGED <<bs_portfolio, bs_ret, lq_ret, dt_threshold, dt_market, dt_ret,
                   cr_ret>>
    /\ UNCHANGED <<riskVars, execVars, gridVars>>

NextSlippage ==
    \E row \in BOOLEAN, size \in SlippageSizes, asks \in AskSides :
        CalculateSlippageCall(row, size, asks)

SpecSlippage == Init /\ [][NextSlippage]_vars

(***************************************************************************)
(* RiskCalculator.calculate_portfolio_risk (risk/calculator.py:182-239)    *)
(* called directly, on a calculator built with the smallest lookback       *)
(* period its constructor allows.  The market data is given by the number  *)
(* of return rows it yields.                                               *)
(***************************************************************************)
LookbackPeriod == 5
RiskPairs == {"SOL/USDC", "ORCA/USDC"}
RiskValues == 0..3
RiskPortfolios == UNION {[S -> RiskValues] : S \in SUBSET RiskPairs}
ReturnRows == {0, 4, 5, 6}

\* line 85: calculate_value_at_risk raises on fewer rows than lookback_period
InsufficientHistory(rows) == rows < LookbackPeriod

\* lines 203-239: every exception of the body is raised again as ValueError
\* (238-239); a result that is returned is the full dict of lines 224-236,
\* which has no 'error' key
CalculatePortfolioRisk(pos, rows) ==
    IF CalcPortfolioRiskRaises(pos, IF InsufficientHistory(rows) THEN "raise" ELSE "ok")
    THEN [raised |-> TRUE, error_key |-> FALSE]
    ELSE [raised |-> FALSE, error_key |-> FALSE]

\* one call of calculate_portfolio_risk; the positions and the market data are
\* arguments, so one call is followed
CalculatePortfolioRiskCall(pos, rows) ==
    /\ ~cr_ret.called
    /\ LET r == CalculatePortfolioRisk(pos, rows) IN
       cr_ret' = [called |-> TRUE, positions |-> pos, history |-> rows,
                  raised |-> r.raised, error_key |-> r.error_key]
    /\ UNCHANGED <<bs_portfolio, bs_ret, lq_ret, dt_threshold, dt_market, dt_ret,
                   sl_ret>>
    /\ UNCHANGED <<riskVars, execVars, gridVars>>

NextCalculator ==
    \E pos \in RiskPortfolios, rows \in ReturnRows :
        CalculatePortfolioRiskCall(pos, rows)

SpecCalculator == Init /\ [][NextCalculator]_vars

(***************************************************************************)
(* Properties of the trading components.                                   *)
(***************************************************************************)
\* a step in which execute_opportunity hands its bundle to the venue
BundleSubmitted == ex_pc' = "awaiting" /\ ex_attempt' # ex_attempt

\* a step in which setup_grid or rebalance_grid stores grid levels
LevelsInstalled ==
    \E pair \in DOMAIN active_grids' :
        pair \notin DOMAIN active_grids \/ active_grids'[pair] # active_grids[pair]

\* C4: once emergency_stop is set every component observes it: in no step taken
\* while the flag is set does execute_opportunity submit a trade leg or does
\* setup_grid or rebalance_grid install grid levels.
C4_StopObservedByAll ==
    [][emergency_stop => ~BundleSubmitted /\ ~LevelsInstalled]_vars

\* C7: every execute_opportunity call updates the statistics exactly once, so
\* whenever no call is in progress total_executions equals the number of calls
\* that have returned.
C7_StatsOncePerCall ==
    ex_pc = "idle" => execution_stats.total_executions = ex_calls

\* C8: one call submits its bundle at most MAX_EXECUTION_ATTEMPTS times; it
\* submits again only after an attempt that timed out, raised or had a failing
\* leg; and it submits nothing after its first fully successful attempt.
C8_BoundedRetry ==
    /\ [](ex_attempt <= MAX_EXECUTION_ATTEMPTS
          /\ ex_result.attempts <= MAX_EXECUTION_ATTEMPTS)
    /\ [][(ex_attempt >= 1 /\ BundleSubmitted)
              => ex_last' \in {"leg_failed", "timeout", "raise"}]_vars
    /\ [][(ex_pc = "awaiting" /\ ex_last' = "success")
              => /\ ~BundleSubmitted
                 /\ ex_pc' = "idle"
                 /\ ex_result'.success
                 /\ ex_result'.attempts = ex_attempt]_vars

\* two failed attempts and a successful third one
C8_Witness ==
    /\ ex_result.returned
    /\ ex_result.success
    /\ ex_result.attempts = MAX_EXECUTION_ATTEMPTS
    /\ Len(ex_result.errors) = 2

\* C9: execute_opportunity always returns a result record, and a record that
\* reports failure carries at least one error message.
C9_FailureCarriesErrors ==
    /\ ex_calls > 0 => ex_result.returned
    /\ (ex_result.returned /\ ~ex_result.success) => ex_result.errors # <<>>

\* C15: for every trade and portfolio in which trade_value / portfolio_value *
\* 10000 exceeds max_position_size_bps (trade_value = size * price,
\* portfolio_value = equity), validate_trade returns False and its diagnostics
\* contain a size_error.
C15_OversizeRejected ==
    (/\ bs_ret.called
     /\ bs_ret.portfolio.equity > 0
     /\ bs_ret.trade.size * bs_ret.trade.price * 10000
            > MAX_POSITION_SIZE_BPS * bs_ret.portfolio.equity)
    => (~bs_ret.valid /\ bs_ret.size_error)

\* a trade of 5500 basis points of the equity was refused for its size
C15_Witness ==
    /\ bs_ret.called
    /\ bs_ret.portfolio = [equity |-> 100, position |-> 0]
    /\ bs_ret.trade.size * bs_ret.trade.price = 55
    /\ ~bs_ret.valid
    /\ bs_ret.size_error

\* the whole depth of a side and the relative move between its first and its
\* last price, as the order book states them
RECURSIVE Depth(_)
Depth(levels) ==
    IF levels = <<>> THEN 0 ELSE levels[1].volume + Depth(Tail(levels))

WellFormed(side) == side.form = "levels"

MoveUnderOnePercent(levels) ==
    /\ levels # <<>>
    /\ levels[1].price > 0
    /\ 100 * (levels[1].price - levels[Len(levels)].price) < levels[1].price
    /\ 100 * (levels[Len(levels)].price - levels[1].price) < levels[1].price

\* C16: validate_liquidity fails closed: it returns False for every order book
\* whose cumulative bid depth or cumulative ask depth is below required_volume
\* and for every order book with a missing or malformed side, and it returns
\* True only when both depths reach required_volume and the first-to-last price
\* move on both sides is under 1%.
C16_LiquidityFailsClosed ==
    lq_ret.called =>
        LET bids == lq_ret.market_data.bids
            asks == lq_ret.market_data.asks
            req == lq_ret.required_volume
        IN  /\ (~WellFormed(bids) \/ ~WellFormed(asks)) => ~lq_ret.value
            /\ (Depth(bids.levels) < req \/ Depth(asks.levels) < req)
                   => ~lq_ret.value
            /\ lq_ret.value =>
                   /\ WellFormed(bids) /\ WellFormed(asks)
                   /\ Depth(bids.levels) >= req /\ Depth(asks.levels) >= req
                   /\ MoveUnderOnePercent(bids.levels)
                   /\ MoveUnderOnePercent(asks.levels)

\* a book with enough bids and too few asks was refused
C16_Witness ==
    /\ lq_ret.called
    /\ WellFormed(lq_ret.market_data.bids)
    /\ WellFormed(lq_ret.market_data.asks)
    /\ MoveUnderOnePercent(lq_ret.market_data.bids.levels)
    /\ MoveUnderOnePercent(lq_ret.market_data.asks.levels)
    /\ Depth(lq_ret.market_data.bids.levels) >= lq_ret.required_volume
    /\ Depth(lq_ret.market_data.asks.levels) = 5
    /\ lq_ret.required_volume = 10
    /\ ~lq_ret.value

\* C17: validate_opportunity re-checks the live price difference against the
\* detector's threshold: the threshold is never below the global minimum of 20
\* basis points whatever the constructor was given, and whenever the current
\* price difference between the two venues is below the threshold the call
\* returns (False, metrics).
C17_BelowThresholdRejected ==
    /\ dt_threshold >= MIN_PRICE_DIFFERENCE_BPS
    /\ (/\ dt_ret.called
        /\ dt_ret.market.buy_price > 0
        /\ dt_ret.market.sell_price > 0
        /\ 2 * 10000 * (dt_ret.market.sell_price - dt_ret.market.buy_price)
               < dt_ret.threshold
                    * (dt_ret.market.buy_price + dt_ret.market.sell_price)
        /\ 2 * 10000 * (dt_ret.market.buy_price - dt_ret.market.sell_price)
               < dt_ret.threshold
                    * (dt_ret.market.buy_price + dt_ret.market.sell_price))
       => ~dt_ret.valid

\* C18: bundle building is all-or-nothing: execute_opportunity submits a trade
\* leg only if every leg of the execution path passed the strategy's
\* validate_trade, and a call whose path has a refused leg returns success =
\* FALSE with nothing submitted and no attempt made.
C18_AllOrNothing ==
    [][/\ BundleSubmitted =>
              /\ ex_bundle' # <<>>
              /\ \A i \in 1..Len(ex_bundle') :
                     BaseValidateTrade(ex_bundle'[i].value, 0, ex_equity).valid
       /\ \A opp \in Opportunities :
              (/\ ExecuteOpportunity(opp)
               /\ opp.check = "pass"
               /\ \E i \in 1..Len(CalculateExecutionPath(opp)) :
                      ~BaseValidateTrade(CalculateExecutionPath(opp)[i].value, 0,
                                         ex_equity).valid)
              => /\ ex_result'.returned
                 /\ ~ex_result'.success
                 /\ ex_result'.attempts = 0
                 /\ ex_pc' = "idle"
                 /\ ex_bundle' = <<>>
                 /\ ex_attempt' = 0]_vars

\* a call on a funded strategy was refused at a leg and left nothing in flight
C18_Witness ==
    /\ ex_equity = 100
    /\ ex_result.returned
    /\ ex_result.errors = <<ExecError("Trade validation failed", 0)>>
    /\ ex_pc = "idle"
    /\ ex_bundle = <<>>
    /\ ex_calls = 1
    /\ execution_stats.total_executions = 0

\* C10: every active grid holds exactly as many levels as its parameters say.
C10_LevelCount ==
    \A pair \in DOMAIN active_grids :
        Len(active_grids[pair].levels) = active_grids[pair].params.grid_levels

\* the places of a task inside its loop
LoopPlaces == {"sleep", "persist", "sd_cancel", "sd_secure", "hb_reduce"}

\* C11: the long-running loops never exit on error: a task that
\* start_monitoring has created stays inside its loop whatever a cycle raises,
\* and after a cycle of a risk monitor in which a step has raised the monitor
\* goes on to a later cycle, that is, it comes back to the sleep at the head of
\* its loop.
C11_LoopsSurviveErrors ==
    /\ [][\A p \in Monitors \cup {PersistTask} :
              pc[p] # "unstarted" => pc'[p] \in LoopPlaces]_vars
    /\ \A p \in Monitors : [](frame[p].step_failed => <>(pc[p] = "sleep"))

ShutdownStepFailed(p) ==
    /\ pc[p] \in {"sd_cancel", "sd_secure"}
    /\ pc'[p] \notin {"sd_cancel", "sd_secure", "persist"}

\* C13: emergency_shutdown is fail-safe: when one of its steps (cancelling,
\* securing, persisting) fails the call returns false, it never raises, and
\* emergency_stop is true afterwards.
C13_ShutdownFailSafe ==
    /\ [](ret.op = "emergency_shutdown" => ret.status = "returned" /\ emergency_stop)
    /\ [](frame[Caller].step_failed /\ ~frame[Caller].hb =>
             <>(/\ pc[Caller] = "idle"
                /\ ret.op = "emergency_shutdown"
                /\ ret.value = FALSE
                /\ emergency_stop))
    /\ [][\A p \in Procs :
             ShutdownStepFailed(p) =>
                 /\ emergency_stop'
                 /\ pc'[p] = Home(p)
                 /\ ~frame[p].hb =>
                       /\ ret'.op = "emergency_shutdown"
                       /\ ret'.status = "returned"
                       /\ ret'.value = FALSE]_vars

\* C14: every direct call of emergency_shutdown eventually returns, and a call
\* in which no step failed returns true with the orders cancelled and a snapshot
\* recording emergency_stop = true persisted.
C14_ShutdownReturns ==
    /\ [](pc[Caller] = "sd_cancel" /\ ~frame[Caller].hb =>
             <>(pc[Caller] = "idle" /\ ret.op = "emergency_shutdown"))
    /\ [](ret.op = "emergency_shutdown" /\ ret.value = TRUE =>
             openOrders = 0 /\ persisted.written /\ persisted.emergency_stop)

\* the earlier history is kept as it was, entries are only added at the end
AppendOnly(old, new) ==
    \A k \in HistoryKeys :
        /\ Len(new[k]) >= Len(old[k])
        /\ SubSeq(new[k], 1, Len(old[k])) = old[k]

\* C19: risk_metrics_history is a bounded append-only log: no list of it ever
\* grows beyond the configured bound, and an entry once appended is never
\* modified or removed out of order.
C19_HistoryBounded ==
    /\ [](\A k \in HistoryKeys : Len(risk_metrics_history[k]) <= MetricsHistoryLimit)
    /\ [][AppendOnly(risk_metrics_history, risk_metrics_history')]_vars

\* C20: every handle_risk_breach call that returns 'handled' has appended a
\* record of the breach to the history, so once such a call has returned
\* risk_metrics_history['alerts'] is not empty.
C20_BreachRecorded ==
    (ret.op = "handle_risk_breach" /\ ret.status = "handled")
        => risk_metrics_history["alerts"] # <<>>

\* C24: risk assessment and trade validation are read-only on the portfolio:
\* the positions of portfolio_state are the same after a validate_trade or an
\* assess_portfolio_risk as before it, so a second validate_trade of the same
\* trade sees the portfolio the first one saw.
C24_ValidationReadOnly ==
    [][(ValidateTrade \/ AssessPortfolioRisk) => positions' = positions]_vars

\* a task is inside emergency_shutdown, past its first statement
ShutdownInProgress(p) ==
    \/ pc[p] \in {"sd_cancel", "sd_secure"}
    \/ pc[p] = "persist" /\ p # PersistTask

\* C30: emergency_shutdown closes the gate before it can be suspended: while a
\* task is suspended inside emergency_shutdown the flag is set, and a
\* validate_trade that another task runs meanwhile is rejected by the gate.
C30_GateClosedBeforeSuspension ==
    /\ [](\A p \in Procs : ShutdownInProgress(p) => emergency_stop)
    /\ [][((\E p \in Procs : ShutdownInProgress(p)) /\ ValidateTrade) =>
              /\ ret'.op = "validate_trade"
              /\ ret'.value = FALSE
              /\ ret'.error = EmergencyStopError
              /\ ~ret'.delegated]_vars

\* a trade was refused while the first emergency_shutdown call still awaited
\* the cancellation of the orders
C30_Witness ==
    /\ pc[Caller] = "sd_cancel"
    /\ sd_returns = 0
    /\ \A p \in Monitors : pc[p] = "unstarted"
    /\ openOrders > 0
    /\ ret.op = "validate_trade"
    /\ ret.error = EmergencyStopError

\* C23: the persisted risk-state write is a single atomic step: under any
\* interleaving of the persistence task, the monitors and an emergency_shutdown
\* in progress, the file, once it exists, holds one complete snapshot, never a
\* partially written one.
C23_AtomicPersistence == persisted.written => persisted.complete

\* C28: in every state of an ArbitrageExecutor total_executions equals
\* successful_executions + failed_executions, no counter ever decreases, and
\* each update of the statistics raises the total by one and exactly one of
\* successful_executions and failed_executions by one.
C28_StatsConsistent ==
    /\ [](execution_stats.total_executions
             = execution_stats.successful_executions
                  + execution_stats.failed_executions)
    /\ [][/\ execution_stats'.total_executions >= execution_stats.total_executions
          /\ execution_stats'.successful_executions
                 >= execution_stats.successful_executions
          /\ execution_stats'.failed_executions >= execution_stats.failed_executions
          /\ execution_stats' # execution_stats =>
                 /\ execution_stats'.total_executions
                        = execution_stats.total_executions + 1
                 /\ \/ /\ execution_stats'.successful_executions
                              = execution_stats.successful_executions + 1
                       /\ execution_stats'.failed_executions
                              = execution_stats.failed_executions
                    \/ /\ execution_stats'.failed_executions
                              = execution_stats.failed_executions + 1
                       /\ execution_stats'.successful_executions
                              = execution_stats.successful_executions]_vars

\* one execution has been counted as successful and one as failed
C28_Witness ==
    /\ execution_stats.successful_executions = 1
    /\ execution_stats.failed_executions = 1
    /\ execution_stats.total_executions = 2
    /\ ex_pc = "idle"

\* C26: _calculate_slippage fails safe toward rejection: when the trade size is
\* not positive, or the buy venue has no row, or its 'asks' are missing or
\* empty, the estimate is +infinity, so the slippage gate of
\* validate_execution is false.
C26_SlippageFailsSafe ==
    (/\ sl_ret.called
     /\ \/ sl_ret.size <= 0
        \/ ~sl_ret.row
        \/ sl_ret.asks.form = "missing"
        \/ sl_ret.asks.levels = <<>>)
    => (sl_ret.infinite /\ ~sl_ret.within_limits)

\* C27: calculate_portfolio_risk fails gracefully: on missing or degenerate
\* input (no positions, a total value of zero, too little market history) it
\* returns a partial result carrying an error key and does not raise.
C27_PortfolioRiskGraceful ==
    (/\ cr_ret.called
     /\ \/ DOMAIN cr_ret.positions = {}
        \/ PortfolioValue(cr_ret.positions) = 0
        \/ InsufficientHistory(cr_ret.history))
    => (~cr_ret.raised /\ cr_ret.error_key)

\* levels around a price (in hundredths, as the levels are): a buy level k
\* spacings below exactly when a sell level k spacings above, buys below and
\* sells above the price, every level pending
SymmetricAround(levels, current_price, spacing) ==
    /\ \A k \in 1..(MaxGridLevels + 1) :
           (\E j \in 1..Len(levels) :
                /\ levels[j].side = "buy"
                /\ levels[j].price = current_price * (100 - k * spacing))
           <=> (\E j \in 1..Len(levels) :
                   /\ levels[j].side = "sell"
                   /\ levels[j].price = current_price * (100 + k * spacing))
    /\ \A j \in 1..Len(levels) :
           /\ levels[j].price < current_price * 100 => levels[j].side = "buy"
           /\ levels[j].price > current_price * 100 => levels[j].side = "sell"
           /\ levels[j].status = "pending"

\* C25: the grid levels built by setup_grid and rebalance_grid are symmetric
\* around the current price: for every k >= 1 there is a buy level at
\* current_price * (1 - k * spacing) exactly when there is a sell level at
\* current_price * (1 + k * spacing); levels below the price are buys, levels
\* above it are sells, and every new level is pending.
C25_LevelsSymmetric ==
    [][/\ \A pair \in Pairs, price \in CurrentPrices, plan \in GridPlans,
             t \in Trades, out \in ValidationOutcomes :
              (SetupGrid(pair, price, plan, t, out) /\ g_ret'.status = "success")
                  => SymmetricAround(active_grids'[pair].levels, price,
                                     plan.grid_spacing)
       /\ (RebalanceInstall("ok") /\ g_ret'.status = "success")
              => SymmetricAround(active_grids'[g_frame.pair].levels, g_frame.price,
                                 g_frame.grid_spacing)]_vars

\* a step in which rebalance_grid fails before _cancel_grid_orders: the pair
\* has no active grid, the market data or the parameters fail, or the risk
\* manager rejects
RebalanceRefused ==
    \/ \E pair \in Pairs, price \in CurrentPrices :
          RebalanceGrid(pair, price) /\ pair \notin DOMAIN active_grids
    \/ \E d \in Outcome, plan \in GridPlans, t \in Trades,
          out \in ValidationOutcomes :
          /\ RebalanceValidate(d, plan, t, out)
          /\ \/ d = "raise"
             \/ plan.step # "ok"
             \/ ~RMValidateTrade(emergency_stop, positions, t, out).valid

\* C22: rebalance_grid validates before it touches anything: when the pair has
\* no active grid, the parameters cannot be recomputed or the risk manager
\* rejects, the call raises, counts one rebalance failure, does not reach the
\* cancellation of the pair's orders, and leaves active_grids and the
\* rebalance events as they were.
C22_RebalanceValidatesFirst ==
    [][RebalanceRefused =>
          /\ g_ret' = GridRet("rebalance_grid", "raised")
          /\ rebalance_failures' = rebalance_failures + 1
          /\ g_pc # "rb_cancel" /\ g_pc' = "idle"
          /\ active_grids' = active_grids
          /\ rebalance_events' = rebalance_events]_vars

\* a rebalance of an active grid was refused by the risk manager
C22_Witness ==
    /\ g_ret = GridRet("rebalance_grid", "raised")
    /\ rebalance_failures = 1
    /\ rebalance_events = 0
    /\ DOMAIN active_grids # {}
    /\ g_pc = "idle"
    /\ ret.op = "validate_trade"
    /\ ~ret.value
    /\ ~emergency_stop

\* the price of pair is more than REBALANCE_THRESHOLD away from the nearest
\* level of its stored grid
Deviating(pair) ==
    /\ pair \in DOMAIN active_grids
    /\ DeviationExceeds(active_grids[pair].levels, market_price[pair])

\* a rebalance_grid call made by monitor_and_adjust for pair is in flight
MonitorRebalances(pair) == g_frame.by = "monitor" /\ g_frame.pair = pair

\* C29: with monitor_and_adjust running, an active grid whose price deviates by
\* more than REBALANCE_THRESHOLD is eventually rebalanced by the monitor (unless
\* the deviation ends first, by the price or by the owner): the grid is not
\* skipped as unhealthy in every cycle forever.
C29_MonitorActsOnItsGrids ==
    \A pair \in GridPairs :
        [](gm_pc # "unstarted" /\ Deviating(pair) =>
              <>(~Deviating(pair) \/ MonitorRebalances(pair)))

\* the grid of pair was updated within HEALTH_CHECK_INTERVAL and has levels
Healthy(pair, fresh) ==
    /\ pair \in DOMAIN active_grids
    /\ pair \in fresh
    /\ Len(active_grids[pair].levels) > 0

\* the price is more than 2% away from the level nearest to it (levels in
\* hundredths)
FarFromNearest(levels, price) ==
    \E k \in 1..Len(levels) :
        /\ \A j \in 1..Len(levels) :
               Distance(levels[k].price, price * 100) <=
                   Distance(levels[j].price, price * 100)
        /\ Distance(levels[k].price, price * 100) * 100 > 2 * levels[k].price

\* the for loop passes over pair in this step
PassedOver(pair) ==
    /\ pair \in DOMAIN gm_cycle'
    /\ gm_cycle'[pair] = "skipped"
    /\ \/ GridCycle
       \/ pair \in DOMAIN gm_cycle /\ gm_cycle[pair] = "unvisited"

====
